---- MODULE Spec2Model ----
(***************************************************************************)
(* A model of the agent/algorithm layer of the lab: the epsilon-greedy     *)
(* action policies, the SARSA and supervised-learning training steps, the  *)
(* learning-rate and exploration-variable schedules, and the per-timestep  *)
(* update of agents and of the agent space.                                *)
(*                                                                         *)
(* Real-valued quantities are exact rationals in fixed point: epsilon and  *)
(* the uniform draw are counted in units of 1/EpsScale, Q targets in units *)
(* of 1/GammaDen, exploration values in units of 1/explore_anneal_epi.     *)
(***************************************************************************)
EXTENDS Integers, Sequences, FiniteSets

VARIABLES
    \* ---- action policies (algorithm_util.py) ----
    action_dim,     \* body.action_dim
    t,              \* aeb_space.clock 't'
    last_action,    \* body.agent.last_action (None until a selection stores one)
    action,         \* the value returned by the last policy call (None before any)
    raised,         \* the last policy call ended in an exception
    call,           \* arguments and effects of the last policy call
    \* ---- training (sarsa.py, sup_learn_action_policy.py) ----
    algo,           \* which Algorithm class the agent runs
    eval_mode,      \* util.in_eval_lab_modes()
    to_train,       \* algorithm.to_train
    memory,         \* the on-policy memory: the stored transitions, oldest first
    last_state,     \* the state the body is in (memory's last state)
    normalize_inputs, \* algorithm.normalize_inputs
    net,            \* the parameters of algorithm.net
    train_steps,    \* number of net.train_step calls so far
    batch_size,     \* clock batch size (set by clock.set_batch_size)
    loss,           \* the value returned by the last train() call
    batch,          \* the batch of the last training step
    q_loss,         \* act_q_preds / act_q_targets / net used by the last calc_q_loss
    next_taken,     \* the action taken right after the last batch was sampled
    steps,          \* environment timesteps elapsed
    \* ---- learning-rate decay (algorithm_util.py) ----
    total_t,        \* aeb_space.clock 'total_t'
    decay_lr,       \* algo.decay_lr
    decay_lr_min_timestep,  \* algo.decay_lr_min_timestep
    decay_lr_frequency,     \* algo.decay_lr_frequency
    lr_updates,     \* per net of nets: number of update_lr() calls so far
    decay_log,      \* the total_t of every 'DECAYING LEARNING RATE' log line
    decay_called,   \* the total_t of the last decay_learning_rate call
    \* ---- exploration schedule (algorithm_util.py) ----
    body_env,       \* nanflat_body_a: for each body, the index of its env
    env_epi,        \* per env: body.env.clock 'epi'
    space_epi,      \* the space clock 'epi'
    explore_var_start, explore_var_end, explore_anneal_epi,  \* cls attributes
    nanflat_explore_var_a,  \* cls.nanflat_explore_var_a, in units of 1/explore_anneal_epi
    explore_call,   \* the clock readings at the last update_multi_linear_decay call
    \* ---- agents and the agent space (agent/__init__.py) ----
    aeb_shape,      \* <<number of agents, envs, bodies per env>>
    agents,         \* AgentSpace.agents
    action_space, reward_space, state_space, done_space,  \* the data spaces
    body_memory,    \* per body: what body.memory.update received, oldest first
    agent_log,      \* the calls made during the last AgentSpace.update, in order
    space_ret       \* the outcome of the last AgentSpace.update

actVars   == <<action_dim, t, last_action, action, raised, call>>
trainVars == <<algo, eval_mode, to_train, memory, last_state, normalize_inputs,
               net, train_steps,
               batch_size, loss, batch, q_loss, next_taken, steps>>
decayVars == <<total_t, decay_lr, decay_lr_min_timestep, decay_lr_frequency,
               lr_updates, decay_log, decay_called>>
exploreVars == <<body_env, env_epi, space_epi, explore_var_start, explore_var_end,
                 explore_anneal_epi, nanflat_explore_var_a, explore_call>>
agentVars == <<aeb_shape, agents, action_space, reward_space, state_space,
               done_space, body_memory, agent_log, space_ret>>
vars == <<actVars, trainVars, decayVars, exploreVars, agentVars>>

None == -1      \* Python's None / an attribute not set yet
NaN  == -2      \* np.nan

(***************************************************************************)
(* Bounds of the model.                                                    *)
(***************************************************************************)
MaxActionDim == 2       \* action_dim ranges over 1..MaxActionDim
MaxQ         == 1       \* q values output by the net range over 0..MaxQ
EpsScale     == 3       \* epsilon and the uniform draw are multiples of 1/EpsScale
MaxT         == 9       \* the clock stops ticking at MaxT

(***************************************************************************)
(* act_with_epsilon_greedy                                                 *)
(***************************************************************************)
\* np.random.rand() draws u in [0, 1): u = k / EpsScale with 0 <= k < EpsScale
UniformDraws == 0 .. (EpsScale - 1)
\* epsilon in [0, 1]
Epsilons == 0 .. EpsScale
\* np.random.randint(n) draws an integer in [0, n)
RandInts(n) == 0 .. (n - 1)
\* the outputs net.wrap_eval can give for a body with n actions
NetOuts(n) == [0 .. (n - 1) -> 0 .. MaxQ]

Explores_ge(epsilon, u) == epsilon >= u

\* `if epsilon > np.random.rand()`
Explores(epsilon, u) == epsilon > u

\* torch.max(out, dim=0)[1]: an index holding the maximum of out (which one
\* of several equal maxima is not fixed by torch)
ArgMaxes(out) == {i \in DOMAIN out : \A j \in DOMAIN out : out[j] <= out[i]}

\* The outcomes of act_with_epsilon_greedy(body, state, net, epsilon, ...):
\* the returned action and whether the net was evaluated.
EpsilonGreedyOutcomes(n, epsilon, u, r, out) ==
    IF Explores(epsilon, u)
    THEN {[action |-> r, evaluated |-> FALSE]}
    ELSE {[action |-> a, evaluated |-> TRUE] : a \in ArgMaxes(out)}

\* no policy call has been made yet
NoCall == [fn |-> "none", epsilon |-> 0, u |-> 0, randint |-> 0,
           out |-> [i \in {0} |-> 0], evaluated |-> FALSE, t |-> None,
           selected |-> FALSE]

act_with_epsilon_greedy ==
    /\ \E epsilon \in Epsilons, u \in UniformDraws,
          r \in RandInts(action_dim), out \in NetOuts(action_dim) :
        \E o \in EpsilonGreedyOutcomes(action_dim, epsilon, u, r, out) :
            /\ action' = o.action
            /\ call' = [fn |-> "epsilon_greedy", epsilon |-> epsilon, u |-> u,
                        randint |-> r, out |-> out, evaluated |-> o.evaluated,
                        t |-> t, selected |-> FALSE]
    /\ raised' = FALSE
    /\ UNCHANGED <<action_dim, t, last_action>>

(***************************************************************************)
(* act_with_epsilon_greedy_atari                                           *)
(***************************************************************************)
IsSelectionStep_mod0(clock_t) == clock_t % 4 = 0

\* `if t % 4 == 1`
IsSelectionStep(clock_t) == clock_t % 4 = 1

act_with_epsilon_greedy_atari ==
    /\ call.t # t       \* one call of the policy per timestep of the clock
    /\ IF IsSelectionStep(t)
       THEN \E epsilon \in Epsilons, u \in UniformDraws,
               r \in RandInts(action_dim), out \in NetOuts(action_dim) :
              \E o \in EpsilonGreedyOutcomes(action_dim, epsilon, u, r, out) :
                /\ action' = o.action
                /\ last_action' = o.action
                /\ raised' = FALSE
                /\ call' = [fn |-> "atari", epsilon |-> epsilon, u |-> u,
                            randint |-> r, out |-> out, evaluated |-> o.evaluated,
                            t |-> t, selected |-> TRUE]
                /\ UNCHANGED <<action_dim, t>>
       ELSE \* the arguments are not read; reading an attribute that was
            \* never set raises AttributeError
            /\ action' = last_action
            /\ raised' = (last_action = None)
            /\ call' = [NoCall EXCEPT !.fn = "atari", !.t = t]
            /\ UNCHANGED <<action_dim, t, last_action>>

\* the space clock ticks one timestep between two calls of the policy
tick_t ==
    /\ call.t = t
    /\ t < MaxT
    /\ t' = t + 1
    /\ UNCHANGED <<action_dim, last_action, action, raised, call>>

\* the policy side before any body acts
IdleAct ==
    /\ action_dim = 1
    /\ t = 0
    /\ last_action = None
    /\ action = None
    /\ raised = FALSE
    /\ call = NoCall

InitAct ==
    /\ action_dim \in 1 .. MaxActionDim
    /\ t = 0
    /\ last_action \in {None} \cup (0 .. (action_dim - 1))
    /\ action = None
    /\ raised = FALSE
    /\ call = NoCall

(***************************************************************************)
(* The on-policy batch memory and the net, as the algorithms use them.     *)
(***************************************************************************)
NumStates    == 2       \* environment states k / (NumStates-1), k in 0..NumStates-1
NumActions   == 2       \* discrete actions 0 .. NumActions-1
GoalReward   == 1       \* the reward the environment pays for its last state
MaxTheta     == 1       \* net parameters range over 0..MaxTheta
MaxSteps     == 3       \* environment timesteps per run
training_frequency == 2 \* algorithm_spec 'training_frequency'
GammaNum == 99          \* gamma = GammaNum / GammaDen = 0.99
GammaDen == 100

States  == 0 .. (NumStates - 1)
Actions == 0 .. (NumActions - 1)
\* the environment: a walk around its states, one or two states ahead
\* depending on the action, paying GoalReward for reaching its last state
EnvStep(state, a) == (state + 1 + (a % 2)) % NumStates
Reward(next_state) == IF next_state = NumStates - 1 THEN GoalReward ELSE 0
\* env.reset(): every episode starts in state 0
ResetState == 0
Thetas  == 0 .. MaxTheta

SeqSum(s) ==
    LET RECURSIVE Go(_)
        Go(i) == IF i = 0 THEN 0 ELSE s[i] + Go(i - 1)
    IN Go(Len(s))

\* the batch memory.sample() returns: a dict of equally long columns
EmptyBatch == [states |-> <<>>, actions |-> <<>>, rewards |-> <<>>,
               next_states |-> <<>>, dones |-> <<>>, next_actions |-> <<>>]
NoBatch == [EmptyBatch EXCEPT !.next_actions = <<None>>]
NoQLoss == [x |-> <<>>, y |-> <<>>, loss |-> None, net |-> None]

\* memory.sample(): the stored transitions as columns
MemorySample(mem) ==
    [states      |-> [i \in 1 .. Len(mem) |-> mem[i].state],
     actions     |-> [i \in 1 .. Len(mem) |-> mem[i].action],
     rewards     |-> [i \in 1 .. Len(mem) |-> mem[i].reward],
     next_states |-> [i \in 1 .. Len(mem) |-> mem[i].next_state],
     dones       |-> [i \in 1 .. Len(mem) |-> mem[i].done],
     next_actions |-> <<>>]

\* what sampling leaves in the memory: the memory class decides whether the
\* sampled transitions are kept or dropped
MemoryAfterSample(mem) == {mem, <<>>}

\* net(x): the q values (or action preferences) the net with parameters
\* theta gives for input x (x in units of 1/(NumStates-1), from -1 to 1);
\* every (input, action) pair has its own value
Forward(theta, x) ==
    [a \in Actions |-> theta + NumActions * (x + NumStates - 1) + a]

\* body.memory.update(action, reward, state, done) after an environment
\* transition: stores the transition and flags the algorithm for training
\* once training_frequency transitions are stored
memory_update ==
    /\ steps < MaxSteps
    /\ \E a \in Actions, d \in {0, 1} :
        LET s == EnvStep(last_state, a)
        IN /\ memory' = Append(memory, [state |-> last_state, action |-> a,
                                        reward |-> Reward(s), next_state |-> s,
                                        done |-> d])
           \* Agent.reset: memory.reset_last_state at the start of an episode
           /\ last_state' = IF d = 1 THEN ResetState ELSE s
        /\ next_taken' = IF batch # NoBatch /\ next_taken = None
                         THEN a ELSE next_taken
    /\ to_train' = IF Len(memory') = training_frequency THEN 1 ELSE to_train
    /\ steps' = steps + 1
    /\ UNCHANGED <<algo, eval_mode, normalize_inputs, net, train_steps,
                   batch_size, loss, batch, q_loss>>

(***************************************************************************)
(* SARSA                                                                   *)
(***************************************************************************)
\* batch['next_actions'] = zeros_like(actions); next_actions[:-1] = actions[1:]
NextActions(actions) ==
    [i \in 1 .. Len(actions) |-> IF i < Len(actions) THEN actions[i + 1] ELSE 0]

\* SARSA.sample
SARSA_sample(mem) ==
    LET b == MemorySample(mem)
    IN [b EXCEPT !.next_actions = NextActions(b.actions)]

\* states = (states - 0.5) / 0.5 when normalize_inputs is set
\* (in units of 1/(NumStates-1))
Normalize(normalize, x) == IF normalize THEN 2 * x - (NumStates - 1) ELSE x

QTarget_nomask(r, d, next_q) == GammaDen * r + GammaNum * next_q

\* act_q_targets = rewards + gamma * (1 - dones) * act_next_q_preds,
\* in units of 1/GammaDen
QTarget(r, d, next_q) == GammaDen * r + GammaNum * (1 - d) * next_q

\* net.loss_fn: the squared error summed over the batch
LossFn(x, y) ==
    SeqSum([i \in 1 .. Len(x) |-> (x[i] - y[i]) * (x[i] - y[i])])

\* SARSA.calc_q_loss: the predictions, the targets and the loss
calc_q_loss(theta, normalize, b) ==
    LET n == Len(b.states)
        q_preds      == [i \in 1 .. n |->
                            Forward(theta, Normalize(normalize, b.states[i]))]
        next_q_preds == [i \in 1 .. n |->
                            Forward(theta, Normalize(normalize, b.next_states[i]))]
        act_q_preds      == [i \in 1 .. n |-> GammaDen * q_preds[i][b.actions[i]]]
        act_next_q_preds == [i \in 1 .. n |-> next_q_preds[i][b.next_actions[i]]]
        act_q_targets    == [i \in 1 .. n |->
                                QTarget(b.rewards[i], b.dones[i], act_next_q_preds[i])]
    IN [x |-> act_q_preds, y |-> act_q_targets,
        loss |-> LossFn(act_q_preds, act_q_targets)]

TimeToTrain_any(flag) == flag \in {0, 1}

\* `if self.to_train == 1`
TimeToTrain(flag) == flag = 1

\* len(batch): the number of columns of the batch dict
BatchLen(b) == Cardinality(DOMAIN b)

\* SARSA.train
SARSA_train ==
    /\ algo = "SARSA"
    /\ IF eval_mode
       THEN /\ loss' = NaN
            /\ UNCHANGED <<to_train, memory, net, train_steps, batch_size, batch,
                           q_loss, next_taken>>
       ELSE IF TimeToTrain(to_train)
       THEN \E theta \in Thetas :
            LET b == SARSA_sample(memory)
                q == calc_q_loss(net, normalize_inputs, b)
            IN /\ batch' = b
               /\ memory' \in MemoryAfterSample(memory)
               /\ batch_size' = BatchLen(b)
               /\ q_loss' = [x |-> q.x, y |-> q.y, loss |-> q.loss, net |-> net]
               /\ net' = theta                          \* net.train_step
               /\ train_steps' = train_steps + 1
               /\ to_train' = 0
               /\ next_taken' = None
               /\ loss' = q.loss
       ELSE /\ loss' = NaN
            /\ UNCHANGED <<to_train, memory, net, train_steps, batch_size, batch,
                           q_loss, next_taken>>
    /\ UNCHANGED <<algo, eval_mode, last_state, normalize_inputs, steps>>

(***************************************************************************)
(* SupervisedLAPolicy                                                      *)
(***************************************************************************)
\* SupervisedLAPolicy.sample
SupervisedLAPolicy_sample(mem) ==
    LET b == MemorySample(mem)
    IN [states |-> b.states, actions |-> b.actions, rewards |-> b.rewards,
        next_states |-> b.next_states, dones |-> b.dones]

\* one_hot_embedding(labels, num_classes): rows of the identity matrix
one_hot_embedding(labels) ==
    [i \in 1 .. Len(labels) |-> [a \in Actions |-> IF a = labels[i] THEN 1 ELSE 0]]

\* calc_supervised_learn_loss with entropy_coef_spec = None:
\* loss_fn(preds, targets) over the action preferences of the net
calc_supervised_learn_loss(theta, b) ==
    LET preds   == [i \in 1 .. Len(b.states) |-> Forward(theta, b.states[i])]
        targets == one_hot_embedding(b.actions)
    IN SeqSum([i \in 1 .. Len(b.states) |->
                 SeqSum([k \in 1 .. NumActions |->
                    (preds[i][k - 1] - targets[i][k - 1])
                    * (preds[i][k - 1] - targets[i][k - 1])])])

\* SupervisedLAPolicy.train
SupervisedLAPolicy_train ==
    /\ algo = "SupervisedLAPolicy"
    /\ IF eval_mode
       THEN /\ loss' = NaN
            /\ UNCHANGED <<to_train, memory, net, train_steps, batch_size, batch,
                           next_taken>>
       ELSE IF TimeToTrain(to_train)
       THEN \E theta \in Thetas :
            LET b == SupervisedLAPolicy_sample(memory)
            IN /\ batch' = b
               /\ memory' \in MemoryAfterSample(memory)
               /\ batch_size' = BatchLen(b)
               /\ net' = theta                          \* net.train_step
               /\ train_steps' = train_steps + 1
               /\ to_train' = 0
               /\ next_taken' = None
               /\ loss' = calc_supervised_learn_loss(net, b)
       ELSE /\ loss' = NaN
            /\ UNCHANGED <<to_train, memory, net, train_steps, batch_size, batch,
                           next_taken>>
    /\ UNCHANGED <<algo, eval_mode, last_state, normalize_inputs, q_loss, steps>>

InitTrain ==
    /\ algo \in {"SARSA", "SupervisedLAPolicy"}
    /\ eval_mode \in BOOLEAN
    /\ to_train = 0
    /\ memory = <<>>
    /\ last_state = ResetState
    /\ normalize_inputs \in IF algo = "SARSA" THEN BOOLEAN ELSE {FALSE}
    /\ net \in Thetas
    /\ train_steps = 0
    /\ batch_size = None
    /\ loss = None
    /\ batch = NoBatch
    /\ q_loss = NoQLoss
    /\ next_taken = None
    /\ steps = 0

\* the training side before any agent is built
IdleTrain ==
    /\ algo = "SARSA"
    /\ eval_mode = FALSE
    /\ to_train = 0
    /\ memory = <<>>
    /\ last_state = 0
    /\ normalize_inputs = FALSE
    /\ net = 0
    /\ train_steps = 0
    /\ batch_size = None
    /\ loss = None
    /\ batch = NoBatch
    /\ q_loss = NoQLoss
    /\ next_taken = None
    /\ steps = 0

(***************************************************************************)
(* decay_learning_rate                                                     *)
(***************************************************************************)
NumNets         == 2    \* len(nets)
MaxTotalT       == 9    \* the clock stops ticking at MaxTotalT
MaxMinTimestep  == 3    \* decay_lr_min_timestep ranges over 0..MaxMinTimestep
MaxFrequency    == 3    \* decay_lr_frequency ranges over 1..MaxFrequency

Nets == 1 .. NumNets

TimeToDecay_ge(flag, clock_t, min_timestep, frequency) ==
    /\ flag
    /\ clock_t >= min_timestep
    /\ clock_t % frequency = 0

\* `if algo.decay_lr and t > algo.decay_lr_min_timestep` and
\* `if t % algo.decay_lr_frequency == 0`
TimeToDecay(flag, clock_t, min_timestep, frequency) ==
    /\ flag
    /\ clock_t > min_timestep
    /\ clock_t % frequency = 0

\* `for net in nets: net.update_lr()`
UpdateLrAll(updates) == [n \in Nets |-> updates[n] + 1]

decay_learning_rate ==
    /\ decay_called # total_t   \* one call per timestep of the clock
    /\ decay_called' = total_t
    /\ IF TimeToDecay(decay_lr, total_t, decay_lr_min_timestep, decay_lr_frequency)
       THEN /\ decay_log' = Append(decay_log, total_t)
            /\ lr_updates' = UpdateLrAll(lr_updates)
       ELSE UNCHANGED <<decay_log, lr_updates>>
    /\ UNCHANGED <<total_t, decay_lr, decay_lr_min_timestep, decay_lr_frequency>>

\* the space clock ticks one timestep between two calls
tick_total_t ==
    /\ decay_called = total_t
    /\ total_t < MaxTotalT
    /\ total_t' = total_t + 1
    /\ UNCHANGED <<decay_lr, decay_lr_min_timestep, decay_lr_frequency,
                   lr_updates, decay_log, decay_called>>

InitDecay ==
    /\ total_t = 0
    /\ decay_lr \in BOOLEAN
    /\ decay_lr_min_timestep \in 0 .. MaxMinTimestep
    /\ decay_lr_frequency \in 1 .. MaxFrequency
    /\ lr_updates = [n \in Nets |-> 0]
    /\ decay_log = <<>>
    /\ decay_called = None

IdleDecay ==
    /\ total_t = 0
    /\ decay_lr = FALSE
    /\ decay_lr_min_timestep = 0
    /\ decay_lr_frequency = 1
    /\ lr_updates = [n \in Nets |-> 0]
    /\ decay_log = <<>>
    /\ decay_called = None

(***************************************************************************)
(* update_multi_linear_decay                                               *)
(***************************************************************************)
NumBodies   == 3    \* len(nanflat_body_a)
NumEnvs     == 2    \* environments the bodies live in
MaxEpi      == 2    \* every clock's 'epi' ranges over 1..MaxEpi
MaxExplore  == 2    \* explore_var_start / explore_var_end range over 0..MaxExplore
MaxAnneal   == 2    \* explore_anneal_epi ranges over 1..MaxAnneal

Max2(a, b) == IF a >= b THEN a ELSE b

\* rise = end - start; slope = rise / float(anneal_epi);
\* max(slope * (epi - 1) + start, end), in units of 1/anneal_epi
LinearDecay(epi, start, end, anneal_epi) ==
    Max2((end - start) * (epi - 1) + start * anneal_epi, end * anneal_epi)

BodyEpi_space(i, env_clock, space_clock) == space_clock

\* `epi = body.env.clock.get('epi')`
BodyEpi(i, env_clock, space_clock) == env_clock[body_env[i]]

NoExploreCall == [space_epi |-> None, env_epi |-> <<>>]

update_multi_linear_decay ==
    /\ nanflat_explore_var_a' =
          [i \in 1 .. NumBodies |->
              LinearDecay(BodyEpi(i, env_epi, space_epi), explore_var_start,
                          explore_var_end, explore_anneal_epi)]
    /\ explore_call' = [space_epi |-> space_epi, env_epi |-> env_epi]
    /\ UNCHANGED <<body_env, env_epi, space_epi, explore_var_start,
                   explore_var_end, explore_anneal_epi>>

\* the algorithm is updated every timestep, before any clock moves on
Updated == explore_call = [space_epi |-> space_epi, env_epi |-> env_epi]

\* an environment ends an episode: its own clock moves on
tick_env_epi ==
    \E e \in 1 .. NumEnvs :
        /\ Updated
        /\ env_epi[e] < MaxEpi
        /\ env_epi' = [env_epi EXCEPT ![e] = @ + 1]
        /\ UNCHANGED <<body_env, space_epi, explore_var_start, explore_var_end,
                       explore_anneal_epi, nanflat_explore_var_a, explore_call>>

\* the space clock moves on to the next episode
tick_space_epi ==
    /\ Updated
    /\ space_epi < MaxEpi
    /\ space_epi' = space_epi + 1
    /\ UNCHANGED <<body_env, env_epi, explore_var_start, explore_var_end,
                   explore_anneal_epi, nanflat_explore_var_a, explore_call>>

InitExplore ==
    /\ body_env \in [1 .. NumBodies -> 1 .. NumEnvs]
    /\ env_epi = [e \in 1 .. NumEnvs |-> 1]
    /\ space_epi = 1
    /\ explore_var_start \in 0 .. MaxExplore
    /\ explore_var_end \in 0 .. MaxExplore
    /\ explore_anneal_epi \in 1 .. MaxAnneal
    /\ nanflat_explore_var_a = <<>>
    /\ explore_call = NoExploreCall

IdleExplore ==
    /\ body_env = [i \in 1 .. NumBodies |-> 1]
    /\ env_epi = [e \in 1 .. NumEnvs |-> 1]
    /\ space_epi = 1
    /\ explore_var_start = 0
    /\ explore_var_end = 0
    /\ explore_anneal_epi = 1
    /\ nanflat_explore_var_a = <<>>
    /\ explore_call = NoExploreCall

(***************************************************************************)
(* Agent and AgentSpace                                                    *)
(***************************************************************************)
MaxAgents       == 2    \* len(spec['agent']) ranges over 0..MaxAgents
MaxGridEnvs     == 2    \* envs per agent range over 1..MaxGridEnvs
MaxGridBodies   == 2    \* bodies per env range over 1..MaxGridBodies
MaxUpdates      == 2    \* AgentSpace.update calls per run

\* what algorithm.train() and algorithm.update() can return
Losses      == {NaN, 1}
ExploreVars == {0, 1}

\* the (a, e, b) indices of a space of the given shape
AEB(shape) == (0 .. (shape[1] - 1)) \X (0 .. (shape[2] - 1)) \X (0 .. (shape[3] - 1))

\* AgentSpace.__init__: [Agent(a_spec, self, a) for a, a_spec in enumerate(spec['agent'])]
MakeAgents(n) == [i \in 1 .. n |-> [index |-> i - 1]]

\* AgentSpace.get
AgentSpace_get(a) == agents[a + 1]

\* data_space.get(a=a): the (e, b) array of agent a
SpaceGet(space, shape, a) ==
    [eb \in (0 .. (shape[2] - 1)) \X (0 .. (shape[3] - 1)) |-> space[<<a, eb[1], eb[2]>>]]

\* np.ndenumerate(body_a): the (e, b) indices in row-major order
NdEnumerate(shape) ==
    [k \in 1 .. (shape[2] * shape[3]) |-> <<(k - 1) \div shape[3], (k - 1) % shape[3]>>]

\* the record of one call made during an update
MemoryUpdateCall(a, eb, act, rew, st, dn) ==
    [op |-> "memory.update", a |-> a, e |-> eb[1], b |-> eb[2],
     action |-> act, reward |-> rew, state |-> st, done |-> dn, ret |-> <<>>]
\* algorithm.train() / algorithm.update() and what it returned; op "return"
\* records what Agent.update itself returned
AlgorithmCall(op, a, ret) ==
    [op |-> op, a |-> a, e |-> None, b |-> None,
     action |-> None, reward |-> None, state |-> None, done |-> None, ret |-> ret]

\* the loop of Agent.update over the bodies
BodyLoop(agent, shape, action_a, reward, state_a, done) ==
    LET idx == NdEnumerate(shape)
    IN [k \in 1 .. Len(idx) |->
          MemoryUpdateCall(agent.index, idx[k], action_a[idx[k]], reward[idx[k]],
                           state_a[idx[k]], done[idx[k]])]

Agent_update_swapped(agent, shape, action_a, reward, state_a, done, train_ret, update_ret) ==
    [calls |-> BodyLoop(agent, shape, action_a, reward, state_a, done)
               \o <<AlgorithmCall("update", agent.index, <<update_ret>>),
                    AlgorithmCall("train", agent.index, <<train_ret>>),
                    AlgorithmCall("return", agent.index, <<train_ret, update_ret>>)>>,
     ret |-> <<train_ret, update_ret>>]

\* Agent.update(action_a, reward, state_a, done): the calls it makes, in
\* order, and the pair it returns; train_ret and update_ret are what
\* algorithm.train() and algorithm.update() return
Agent_update(agent, shape, action_a, reward, state_a, done, train_ret, update_ret) ==
    [calls |-> BodyLoop(agent, shape, action_a, reward, state_a, done)
               \o <<AlgorithmCall("train", agent.index, <<train_ret>>),
                    AlgorithmCall("update", agent.index, <<update_ret>>),
                    AlgorithmCall("return", agent.index, <<train_ret, update_ret>>)>>,
     ret |-> <<train_ret, update_ret>>]

AgentOrder_desc(n) == [i \in 1 .. n |-> n - i]

\* the agents AgentSpace.update visits, in order
AgentOrder(n) == [i \in 1 .. n |-> i - 1]

\* the loop of AgentSpace.update; `last` holds (loss, explore_var) once bound
RECURSIVE AgentLoop(_, _, _, _)
AgentLoop(order, k, rets, acc) ==
    IF k > Len(order) THEN acc
    ELSE LET a == order[k]
             r == Agent_update(AgentSpace_get(a), aeb_shape,
                               SpaceGet(action_space, aeb_shape, a),
                               SpaceGet(reward_space, aeb_shape, a),
                               SpaceGet(state_space, aeb_shape, a),
                               SpaceGet(done_space, aeb_shape, a),
                               rets[a][1], rets[a][2])
         IN AgentLoop(order, k + 1, rets,
                      [calls |-> acc.calls \o r.calls, bound |-> TRUE, last |-> r.ret])

\* body.memory.update: every memory receives its calls in the order made
RECURSIVE Store(_, _, _)
Store(mem, calls, k) ==
    IF k > Len(calls) THEN mem
    ELSE LET c == calls[k]
         IN Store(IF c.op = "memory.update"
                  THEN [mem EXCEPT ![<<c.a, c.e, c.b>>] =
                          Append(@, [action |-> c.action, reward |-> c.reward,
                                     state |-> c.state, done |-> c.done])]
                  ELSE mem,
                  calls, k + 1)

NoReturn == [raised |-> FALSE, value |-> <<>>]

AgentSpace_update ==
    /\ \A i \in DOMAIN body_memory : Len(body_memory[i]) < MaxUpdates
    /\ \E rets \in [0 .. (aeb_shape[1] - 1) -> Losses \X ExploreVars] :
        LET r == AgentLoop(AgentOrder(Len(agents)), 1, rets,
                           [calls |-> <<>>, bound |-> FALSE, last |-> <<>>])
        IN /\ agent_log' = r.calls
           /\ body_memory' = Store(body_memory, r.calls, 1)
           \* `return loss, explore_var` with no agent raises UnboundLocalError
           /\ space_ret' = [raised |-> ~r.bound, value |-> r.last]
    /\ UNCHANGED <<aeb_shape, agents, action_space, reward_space, state_space,
                   done_space>>

Shapes == (0 .. MaxAgents) \X (1 .. MaxGridEnvs) \X (1 .. MaxGridBodies)

\* the entry of a data space at index i = (a, e, b): every entry of every
\* space is a value of its own, so that an entry passed to the wrong body, or
\* taken from the wrong space, shows
Entry(space, i) == 1000 * space + 100 * i[1] + 10 * i[2] + i[3]

InitAgent ==
    /\ aeb_shape \in Shapes
    /\ agents = MakeAgents(aeb_shape[1])
    /\ action_space = [i \in AEB(aeb_shape) |-> Entry(1, i)]
    /\ reward_space = [i \in AEB(aeb_shape) |-> Entry(2, i)]
    /\ state_space = [i \in AEB(aeb_shape) |-> Entry(3, i)]
    /\ done_space = [i \in AEB(aeb_shape) |-> Entry(4, i)]
    /\ body_memory = [i \in AEB(aeb_shape) |-> <<>>]
    /\ agent_log = <<>>
    /\ space_ret = NoReturn

IdleAgent ==
    /\ aeb_shape = <<0, 1, 1>>
    /\ agents = <<>>
    /\ action_space = <<>>
    /\ state_space = <<>>
    /\ reward_space = <<>>
    /\ done_space = <<>>
    /\ body_memory = <<>>
    /\ agent_log = <<>>
    /\ space_ret = NoReturn

(***************************************************************************)
(* Specifications                                                          *)
(***************************************************************************)
\* a body acting with the epsilon_greedy policy
InitGreedy == InitAct /\ IdleTrain /\ IdleDecay /\ IdleExplore /\ IdleAgent
NextGreedy ==
    act_with_epsilon_greedy /\ UNCHANGED <<trainVars, decayVars, exploreVars, agentVars>>
SpecGreedy == InitGreedy /\ [][NextGreedy]_vars

\* a body acting with the atari_epsilon_greedy policy along the space clock
NextAtari ==
    \/ act_with_epsilon_greedy_atari /\ UNCHANGED <<trainVars, decayVars, exploreVars, agentVars>>
    \/ tick_t /\ UNCHANGED <<trainVars, decayVars, exploreVars, agentVars>>
SpecAtari == InitGreedy /\ [][NextAtari]_vars

\* an agent storing transitions and training on them
InitTrainSpec == IdleAct /\ InitTrain /\ IdleDecay /\ IdleExplore /\ IdleAgent
NextTrain ==
    \/ memory_update /\ UNCHANGED <<actVars, decayVars, exploreVars, agentVars>>
    \/ SARSA_train /\ UNCHANGED <<actVars, decayVars, exploreVars, agentVars>>
    \/ SupervisedLAPolicy_train /\ UNCHANGED <<actVars, decayVars, exploreVars, agentVars>>
SpecTrain == InitTrainSpec /\ [][NextTrain]_vars

\* an algorithm decaying the learning rate of its nets along the space clock
InitDecaySpec == IdleAct /\ IdleTrain /\ InitDecay /\ IdleExplore /\ IdleAgent
NextDecay ==
    \/ decay_learning_rate /\ UNCHANGED <<actVars, trainVars, exploreVars, agentVars>>
    \/ tick_total_t /\ UNCHANGED <<actVars, trainVars, exploreVars, agentVars>>
SpecDecay == InitDecaySpec /\ [][NextDecay]_vars

\* a multi-body algorithm updating its exploration variables while the
\* environment clocks and the space clock advance
InitExploreSpec == IdleAct /\ IdleTrain /\ IdleDecay /\ InitExplore /\ IdleAgent
NextExplore ==
    \/ update_multi_linear_decay /\ UNCHANGED <<actVars, trainVars, decayVars, agentVars>>
    \/ tick_env_epi /\ UNCHANGED <<actVars, trainVars, decayVars, agentVars>>
    \/ tick_space_epi /\ UNCHANGED <<actVars, trainVars, decayVars, agentVars>>
SpecExplore == InitExploreSpec /\ [][NextExplore]_vars

\* a session updating the agents of its space once per timestep
InitAgentSpec == IdleAct /\ IdleTrain /\ IdleDecay /\ IdleExplore /\ InitAgent
NextAgent ==
    AgentSpace_update /\ UNCHANGED <<actVars, trainVars, decayVars, exploreVars>>
SpecAgent == InitAgentSpec /\ [][NextAgent]_vars


(***************************************************************************)
(* Properties                                                              *)
(***************************************************************************)

\* C1: act_with_epsilon_greedy returns the random draw, without evaluating
\* the net, when epsilon > u, and otherwise an index of the largest q value
\* the net outputs; so epsilon = 0 is always greedy, epsilon = 1 is always
\* random, and the action is always in [0, action_dim).
EpsilonGreedyContract ==
    call.fn = "epsilon_greedy" =>
        LET greedy == /\ call.evaluated
                      /\ \A j \in DOMAIN call.out : call.out[j] <= call.out[action]
            random == /\ ~call.evaluated
                      /\ action = call.randint
        IN /\ action \in 0 .. (action_dim - 1)
           /\ (call.epsilon > call.u) => random
           /\ (call.epsilon <= call.u) => greedy
           /\ (call.epsilon = 0) => greedy
           /\ (call.epsilon = EpsScale) => random

\* a greedy call that had to tell a larger q value from a smaller one
EpsilonGreedyWitness ==
    /\ call.fn = "epsilon_greedy"
    /\ call.epsilon > 0
    /\ call.evaluated
    /\ action # call.randint
    /\ \E j \in DOMAIN call.out : call.out[j] < call.out[action]

\* C2: along a clock ticking once per call, act_with_epsilon_greedy_atari
\* selects a new action through act_with_epsilon_greedy, and stores it in
\* last_action, exactly at the calls where t % 4 = 1; every other call
\* returns last_action unchanged without evaluating the net, so the action
\* returned stays the same from one selection to the next.
AtariSelectsEveryFourSteps ==
    [][call'.t # call.t =>
        IF t % 4 = 1
        THEN /\ call'.selected
             /\ last_action' = action'
             /\ action' \in 0 .. (action_dim - 1)
             /\ (call'.epsilon > call'.u) =>
                    (action' = call'.randint /\ ~call'.evaluated)
             /\ (call'.epsilon <= call'.u) =>
                    /\ call'.evaluated
                    /\ \A j \in DOMAIN call'.out : call'.out[j] <= call'.out[action']
        ELSE /\ ~call'.selected
             /\ ~call'.evaluated
             /\ last_action' = last_action
             /\ action' = last_action
             /\ (call.fn = "atari") => (action' = action)
    ]_vars

\* the second repetition of an action selected at t = 5
AtariWitness ==
    /\ call.fn = "atari"
    /\ call.t = 7
    /\ ~call.selected
    /\ ~raised
    /\ action = last_action
    /\ action > 0

\* C3: a train() call (a step without an environment transition) outside
\* eval mode with to_train = 1 samples one batch, runs net.train_step once,
\* resets to_train to 0 and returns the loss; any other train() call returns
\* NaN and leaves to_train, the memory, the clock batch size and the net
\* untouched. A call that trained leaves to_train # 1, so the call after it
\* trains nothing.
TrainStepOrNothing ==
    [][steps' = steps =>
        IF ~eval_mode /\ to_train = 1
        THEN /\ train_steps' = train_steps + 1
             /\ to_train' = 0
             /\ batch'.states = [i \in 1 .. Len(memory) |-> memory[i].state]
             /\ batch'.actions = [i \in 1 .. Len(memory) |-> memory[i].action]
             /\ loss' >= 0
             /\ (algo = "SARSA") => (loss' = q_loss'.loss)
        ELSE /\ loss' = NaN
             /\ to_train' = to_train
             /\ memory' = memory
             /\ batch_size' = batch_size
             /\ net' = net
             /\ train_steps' = train_steps
    ]_vars

\* a training step has run and reset the flag
TrainWitness ==
    /\ train_steps = 1
    /\ to_train = 0
    /\ loss > 0
    /\ Len(batch.states) = training_frequency

\* C4: calc_q_loss computes, for every example i of the batch,
\* x_i = Q(s_i)[a_i] and y_i = r_i + gamma * (1 - done_i) * Q(s_i')[a_i']
\* (r_i alone for a terminal example) with both Q values from the same net,
\* and returns loss_fn(x, y). Values are in units of 1/GammaDen.
QLossIsSarsaTarget ==
    (q_loss # NoQLoss) =>
        LET Q(s) == Forward(q_loss.net, Normalize(normalize_inputs, s))
            n == Len(batch.states)
        IN /\ Len(q_loss.x) = n
           /\ Len(q_loss.y) = n
           /\ \A i \in 1 .. n :
                /\ q_loss.x[i] = GammaDen * Q(batch.states[i])[batch.actions[i]]
                /\ q_loss.y[i] =
                     IF batch.dones[i] = 1
                     THEN GammaDen * batch.rewards[i]
                     ELSE GammaDen * batch.rewards[i]
                          + GammaNum * Q(batch.next_states[i])[batch.next_actions[i]]
           /\ q_loss.loss = LossFn(q_loss.x, q_loss.y)

\* a loss over a batch holding a terminal and a non-terminal example
QLossWitness ==
    /\ q_loss # NoQLoss
    /\ Len(batch.states) = 2
    /\ batch.dones[1] = 0
    /\ batch.dones[2] = 1
    /\ batch.actions[1] # batch.actions[2]
    /\ batch.next_states[2] # batch.states[2]

\* C5: in every batch SARSA.sample returns, for every example i with done = 0,
\* next_actions[i] is the action actually taken in the next state: the action
\* of the following example, and for the last example the action the agent
\* takes next.
NextActionIsActionTaken ==
    (algo = "SARSA" /\ batch # NoBatch) =>
        \A i \in 1 .. Len(batch.actions) :
            (batch.dones[i] = 0) =>
                IF i < Len(batch.actions)
                THEN batch.next_actions[i] = batch.actions[i + 1]
                ELSE (next_taken # None) => (batch.next_actions[i] = next_taken)

\* C6: decay_learning_rate calls update_lr() once on every net exactly at the
\* calls where decay_lr is set, total_t > decay_lr_min_timestep and
\* total_t % decay_lr_frequency = 0, and on no net otherwise; along a clock
\* ticking once per call the decays come after decay_lr_min_timestep and
\* exactly decay_lr_frequency steps apart.
DecayOnSchedule ==
    LET due == {tt \in 0 .. decay_called :
                   /\ decay_lr
                   /\ tt > decay_lr_min_timestep
                   /\ tt % decay_lr_frequency = 0}
    IN /\ \A n \in Nets : lr_updates[n] = Cardinality(due)
       /\ Len(decay_log) = Cardinality(due)
       /\ \A k \in 1 .. Len(decay_log) : decay_log[k] \in due
       /\ \A k \in 1 .. (Len(decay_log) - 1) :
            decay_log[k + 1] - decay_log[k] = decay_lr_frequency

\* two decays, the first one held back by decay_lr_min_timestep
DecayWitness ==
    /\ Len(decay_log) = 2
    /\ decay_lr_frequency = 3
    /\ decay_lr_min_timestep = 3
    /\ decay_log[1] = 6

\* the calls agent a received during the last AgentSpace.update
CallsOf(a) == SelectSeq(agent_log, LAMBDA c : c.a = a)

\* C7: Agent.update first calls body.memory.update for each body (e, b) with
\* that body's own entries of action_a, reward, state_a and done, then calls
\* algorithm.train() once, then algorithm.update() once, and returns the pair
\* (result of train, result of update).
AgentUpdateOrder ==
    \A a \in 0 .. (aeb_shape[1] - 1) :
        LET seg == CallsOf(a)
            nb == aeb_shape[2] * aeb_shape[3]
        IN (agent_log # <<>>) =>
            /\ Len(seg) = nb + 3
            /\ \A e \in 0 .. (aeb_shape[2] - 1), b \in 0 .. (aeb_shape[3] - 1) :
                 \E k \in 1 .. nb :
                    /\ seg[k].op = "memory.update"
                    /\ seg[k].e = e /\ seg[k].b = b
                    /\ seg[k].action = action_space[<<a, e, b>>]
                    /\ seg[k].reward = reward_space[<<a, e, b>>]
                    /\ seg[k].state = state_space[<<a, e, b>>]
                    /\ seg[k].done = done_space[<<a, e, b>>]
                    /\ body_memory[<<a, e, b>>][Len(body_memory[<<a, e, b>>])] =
                         [action |-> action_space[<<a, e, b>>],
                          reward |-> reward_space[<<a, e, b>>],
                          state |-> state_space[<<a, e, b>>],
                          done |-> done_space[<<a, e, b>>]]
            /\ seg[nb + 1].op = "train"
            /\ seg[nb + 2].op = "update"
            /\ seg[nb + 3].op = "return"
            /\ seg[nb + 3].ret = seg[nb + 1].ret \o seg[nb + 2].ret

\* an agent with a 2 x 2 grid of bodies holding different data was updated
AgentUpdateWitness ==
    /\ aeb_shape = <<1, 2, 2>>
    /\ agent_log # <<>>
    /\ Len(body_memory[<<0, 1, 0>>]) = 2
    /\ body_memory[<<0, 0, 1>>][1] # body_memory[<<0, 1, 0>>][1]

\* the Agent.update calls of the last AgentSpace.update, in order
Returns == SelectSeq(agent_log, LAMBDA c : c.op = "return")

\* C8: AgentSpace.update, for a space with at least one agent, calls
\* agent.update once on every agent in ascending index order, passes agent a
\* the slices of the four data spaces at a, and returns the (loss,
\* explore_var) of the last agent; AgentSpace.get(a) is the agent with index a.
AgentSpaceUpdateOrder ==
    /\ \A a \in 0 .. (aeb_shape[1] - 1) : AgentSpace_get(a).index = a
    /\ (agent_log # <<>>) =>
        /\ Len(Returns) = aeb_shape[1]
        /\ \A k \in 1 .. Len(Returns) : Returns[k].a = k - 1
        /\ \A k \in 1 .. (Len(agent_log) - 1) : agent_log[k].a <= agent_log[k + 1].a
        /\ \A k \in 1 .. Len(agent_log) :
             (agent_log[k].op = "memory.update") =>
                LET c == agent_log[k]
                IN /\ c.action = action_space[<<c.a, c.e, c.b>>]
                   /\ c.reward = reward_space[<<c.a, c.e, c.b>>]
                   /\ c.state = state_space[<<c.a, c.e, c.b>>]
                   /\ c.done = done_space[<<c.a, c.e, c.b>>]
        /\ ~space_ret.raised
        /\ space_ret.value = Returns[aeb_shape[1]].ret

\* two agents were updated and returned different pairs
AgentSpaceUpdateWitness ==
    /\ aeb_shape[1] = 2
    /\ Len(Returns) = 2
    /\ Returns[1].ret[1] # Returns[2].ret[1]
    /\ Returns[1].ret[2] # Returns[2].ret[2]
    /\ space_ret.value = Returns[2].ret

\* C9: update_multi_linear_decay returns one value per body, in body order;
\* the value of body i is max(slope * (epi_i - 1) + start, end) with epi_i
\* read from the clock of body i's own environment, whatever the space clock
\* and the other environments' clocks show, and two bodies of one environment
\* get equal values. Values are in units of 1/explore_anneal_epi.
MultiLinearDecayUsesBodyClock ==
    (explore_call # NoExploreCall) =>
        /\ Len(nanflat_explore_var_a) = NumBodies
        /\ \A i \in 1 .. NumBodies :
            LET epi == explore_call.env_epi[body_env[i]]
                decayed == (explore_var_end - explore_var_start) * (epi - 1)
                           + explore_var_start * explore_anneal_epi
                floor == explore_var_end * explore_anneal_epi
            IN nanflat_explore_var_a[i] = IF decayed >= floor THEN decayed ELSE floor
        /\ \A i, j \in 1 .. NumBodies :
            (body_env[i] = body_env[j]) =>
                (nanflat_explore_var_a[i] = nanflat_explore_var_a[j])

\* bodies of two environments whose clocks differ got different values,
\* the later episode a value still above explore_var_end
MultiLinearDecayWitness ==
    /\ explore_call # NoExploreCall
    /\ explore_call.env_epi[1] = 1
    /\ explore_call.env_epi[2] = 2
    /\ explore_call.space_epi = 1
    /\ body_env[1] = 1
    /\ body_env[2] = 2
    /\ body_env[3] = 2
    /\ nanflat_explore_var_a[1] > nanflat_explore_var_a[2]
    /\ nanflat_explore_var_a[2] > explore_var_end * explore_anneal_epi

====
